---- MODULE Spec2Model ----
(***************************************************************************)
(* Model of streamlit_frontend.py: one render cycle of the Streamlit       *)
(* script per step.  A cycle runs the sidebar, then the routine of the     *)
(* selected page, then the footer; an exception nobody catches ends the    *)
(* cycle where it is raised.  The relational store is the only state that  *)
(* survives a cycle, besides the cached engine.  The store is shared:      *)
(* other sessions of the script commit their writes between two cycles of  *)
(* this one and between two round trips of a cycle.                        *)
(***************************************************************************)
EXTENDS Integers, Sequences, FiniteSets, TLC

VARIABLES
    engine,   \* st.cache_resource: TRUE once get_engine() has created the engine
    store,    \* the relational store: tables and views, by name
    ui        \* what the last render cycle did and showed

vars == <<engine, store, ui>>

(***************************************************************************)
(* Bounds of the model and constants of the program                        *)
(***************************************************************************)
MaxSubs == 2            \* rows the sessions may add to Submissions
MaxSearchLen == 1       \* longest search text typed in the sidebar
MaxOther == 1           \* writes of other sessions between two round trips

RecentLimitDashboard == 25
RecentLimitSubmissions == 100
AuditLimit == 200
TopSolvers == 10
TrendWeeks == 8
RoundDigits == 2
Percent == 100
MantBits == 53
DaysPerWeek == 7

(***************************************************************************)
(* Text: a str is a sequence of characters; None/NULL is its own value.    *)
(***************************************************************************)
Chars == {"a", "A", "b", ".", "("}
SearchChars == {"a", ".", "("}
NULL == <<"<null>">>

RECURSIVE SeqsUpTo(_, _)
SeqsUpTo(S, n) ==
    IF n = 0 THEN {<<>>}
    ELSE LET shorter == SeqsUpTo(S, n - 1)
         IN  shorter \cup {Append(s, c) : s \in shorter, c \in S}

SearchTexts == SeqsUpTo(SearchChars, MaxSearchLen)

\* str.lower() on one character of the alphabet
Lower(c) == IF c = "A" THEN "a" ELSE IF c = "B" THEN "b" ELSE c

\* re.compile(pat): over this alphabet the only pattern that does not compile
\* is one with "(", which opens a group that nothing closes.
re_compiles(pat) == \A i \in DOMAIN pat : pat[i] # "("

\* one pattern element against one character, under re.IGNORECASE
re_elem(p, c) == p = "." \/ Lower(p) = Lower(c)

\* regex.search(s) is not None, for a pattern that compiles
re_search(pat, s) ==
    \E i \in 0..(Len(s) - Len(pat)) :
        \A j \in 1..Len(pat) : re_elem(pat[j], s[i + j])

\* Series.str.contains(pat, case=False, na=False) on one cell
str_contains(cell, pat) == cell # NULL /\ re_search(pat, cell)

\* df[df[col].str.contains(search_text, case=False, na=False)]
filter_text(rows, col, pat) ==
    SelectSeq(rows, LAMBDA r : str_contains(r[col], pat))

\* df[df[col] == value]
filter_eq(rows, col, value) == SelectSeq(rows, LAMBDA r : r[col] = value)

\* df[df[col].isin(values)]
filter_isin(rows, col, values) == SelectSeq(rows, LAMBDA r : r[col] \in values)

(***************************************************************************)
(* Numbers: a nullable number is <<>> (NaN/None) or <<n>>.  A whole number *)
(* or a number of a few decimals is a fraction n/d.                        *)
(***************************************************************************)
NaN == <<>>
Num(n) == <<n>>
IsNaN(v) == v = <<>>
Val(v) == v[1]

Frac(n, d) == [n |-> n, d |-> d]
Zero == Frac(0, 1)

RECURSIVE Pow10(_)
Pow10(e) == IF e = 0 THEN 1 ELSE 10 * Pow10(e - 1)

(***************************************************************************)
(* Floats.  A Python float is an IEEE-754 double: m * 2^e with m a natural *)
(* number of MantBits binary digits, kept as the sequence of its digits,   *)
(* least significant first; 0.0 has no digits.  Every operation gives the  *)
(* double nearest to its exact result, a tie going to the even one; inf   *)
(* is the float a division of a positive number by zero gives.  Counts are *)
(* far from the ends of the exponent range, which is left out.             *)
(***************************************************************************)
FZero == [inf |-> FALSE, m |-> <<>>, e |-> 0]
FInf == [inf |-> TRUE, m |-> <<>>, e |-> 0]

\* the value of a digit sequence
RECURSIVE ToNat(_)
ToNat(bits) == IF bits = <<>> THEN 0 ELSE bits[1] + 2 * ToNat(Tail(bits))

Rev(s) == [i \in 1..Len(s) |-> s[Len(s) + 1 - i]]

\* bits * 2^k
ShiftLeft(bits, k) ==
    [i \in 1..(Len(bits) + k) |-> IF i <= k THEN 0 ELSE bits[i - k]]

\* bits + 1
Inc(bits) ==
    IF \A i \in DOMAIN bits : bits[i] = 1
    THEN [i \in 1..(Len(bits) + 1) |-> IF i = Len(bits) + 1 THEN 1 ELSE 0]
    ELSE LET z == CHOOSE i \in DOMAIN bits :
                    bits[i] = 0 /\ \A j \in 1..(i - 1) : bits[j] = 1
         IN  [i \in DOMAIN bits |->
                IF i < z THEN 0 ELSE IF i = z THEN 1 ELSE bits[i]]

\* bits * c from digit i on, carry coming from the digits below
RECURSIVE MulCarry(_, _, _, _)
MulCarry(bits, c, i, carry) ==
    IF i > Len(bits) /\ carry = 0 THEN <<>>
    ELSE LET t == (IF i <= Len(bits) THEN bits[i] * c ELSE 0) + carry
         IN  <<t % 2>> \o MulCarry(bits, c, i + 1, t \div 2)

Times(bits, c) == MulCarry(bits, c, 1, 0)

\* the integer nearest to bits / 2^drop, a tie going to the even one
RoundShift(bits, drop) ==
    LET at(i) == IF i \in DOMAIN bits THEN bits[i] ELSE 0
        kept == [i \in 1..(IF Len(bits) > drop THEN Len(bits) - drop ELSE 0) |->
                    bits[i + drop]]
        half == drop >= 1 /\ at(drop) = 1
        sticky == \E i \in 1..(drop - 1) : at(i) = 1
        odd == kept # <<>> /\ kept[1] = 1
    IN  IF half /\ (sticky \/ odd) THEN Inc(kept) ELSE kept

\* the double nearest to bits * 2^e
Normal(bits, e) ==
    IF bits = <<>> THEN FZero
    ELSE IF Len(bits) <= MantBits
    THEN [inf |-> FALSE, m |-> ShiftLeft(bits, MantBits - Len(bits)),
          e |-> e - (MantBits - Len(bits))]
    ELSE LET drop == Len(bits) - MantBits
             r == RoundShift(bits, drop)
         IN  IF Len(r) > MantBits
             THEN [inf |-> FALSE, m |-> Tail(r), e |-> e + drop + 1]
             ELSE [inf |-> FALSE, m |-> r, e |-> e + drop]

\* a and b doubled until b <= a < 2b; a/b is unchanged as a * 2^e / b
RECURSIVE Scale(_, _, _)
Scale(a, b, e) ==
    IF a < b THEN Scale(2 * a, b, e - 1)
    ELSE IF a >= 2 * b THEN Scale(a, 2 * b, e + 1)
    ELSE [a |-> a, b |-> b, e |-> e]

\* n binary digits of r/b after the point, most significant first, r < b,
\* and a last digit that says whether anything is left
RECURSIVE LongDiv(_, _, _)
LongDiv(r, b, n) ==
    IF n = 0 THEN <<IF r # 0 THEN 1 ELSE 0>>
    ELSE LET d == IF 2 * r >= b THEN 1 ELSE 0
         IN  <<d>> \o LongDiv(2 * r - d * b, b, n - 1)

\* a / b for counts a >= 0 and b > 0
fdiv(a, b) ==
    IF a = 0 THEN FZero
    ELSE LET s == Scale(a, b, 0)
             digits == <<1>> \o LongDiv(s.a - s.b, s.b, MantBits)
         IN  Normal(Rev(digits), s.e - MantBits - 1)

\* x * c for a float x >= 0 and a whole number c > 0
fmul(x, c) == IF x.inf THEN FInf ELSE Normal(Times(x.m, c), x.e)

\* x > y for floats x, y >= 0
fgt(x, y) ==
    IF x.inf \/ y.inf THEN ~y.inf
    ELSE IF x.m = <<>> \/ y.m = <<>> THEN x.m # <<>> /\ y.m = <<>>
    ELSE \/ x.e > y.e
         \/ /\ x.e = y.e
            /\ \E i \in 1..MantBits :
                /\ x.m[i] > y.m[i]
                /\ \A j \in (i + 1)..MantBits : x.m[j] = y.m[j]

\* a whole number or a float as a float
to_float(x) == IF "m" \in DOMAIN x THEN x ELSE fdiv(x.n, x.d)

\* round(x, digits) for a float x >= 0: the multiple of 10^-digits nearest to
\* the value of x, a tie going to the even one, as a count of 10^-digits
round(x, digits) ==
    LET scaled == Times(x.m, Pow10(digits))
        whole == IF x.e >= 0 THEN ShiftLeft(scaled, x.e)
                 ELSE RoundShift(scaled, 0 - x.e)
    IN  Frac(ToNat(whole), Pow10(digits))

(***************************************************************************)
(* The store.  Its schema, views, triggers and stored procedure live in    *)
(* the database; the tables below are the columns the queries name.        *)
(***************************************************************************)
Verdicts == <<"Accepted", "Wrong Answer", "TLE", "RTE">>
Pages == {"Dashboard", "Leaderboard", "Problems", "Submissions",
          "Tag Analysis", "Admin"}

T_ab == <<"a", "b">>
T_Ab == <<"A", "b">>
T_Adot == <<"A", ".">>
T_b == <<"b">>

\* two users share a display name, and so do two problems
UsersRows ==
    << [user_id |-> 1, username |-> T_ab],
       [user_id |-> 3, username |-> T_ab] >>

PlatformsRows ==
    << [platform_id |-> 1, platform_name |-> "LeetCode"],
       [platform_id |-> 2, platform_name |-> "All"] >>

TagsRows ==
    << [tag_id |-> 1, tag_name |-> "dp"],
       [tag_id |-> 2, tag_name |-> "All"] >>

ProblemsRows ==
    << [problem_id |-> 1, title |-> T_Ab, difficulty |-> "Easy",
        platform_id |-> 1, problem_url |-> "u1"],
       [problem_id |-> 3, title |-> T_Ab, difficulty |-> "Medium",
        platform_id |-> 2, problem_url |-> "u3"],
       [problem_id |-> 4, title |-> NULL, difficulty |-> "Easy",
        platform_id |-> 1, problem_url |-> "u4"] >>

ProblemTagRows == {<<1, 1>>, <<3, 1>>, <<3, 2>>, <<4, 2>>}

SubmissionsRows ==
    << [submission_id |-> 1, user_id |-> 3, problem_id |-> 3,
        verdict |-> "Accepted", language |-> "Python", notes |-> "",
        submission_date |-> 1, attempt_no |-> 1],
       [submission_id |-> 2, user_id |-> 1, problem_id |-> 3,
        verdict |-> "TLE", language |-> "Python", notes |-> "",
        submission_date |-> 2, attempt_no |-> 1] >>

\* vw_leaderboard, with and without the accuracy column
LeaderboardRows ==
    << [username |-> T_b, total_solved |-> 1,
        accepted_submissions |-> 1, total_submissions |-> 2],
       [username |-> NULL, total_solved |-> 2,
        accepted_submissions |-> 2, total_submissions |-> 2],
       [username |-> T_Adot, total_solved |-> 2,
        accepted_submissions |-> 2, total_submissions |-> 4],
       [username |-> T_ab, total_solved |-> 0,
        accepted_submissions |-> 0, total_submissions |-> 0] >>

LeaderboardAccuracy == <<50, 100, 50, 0>>

WithColumn(rows, col, values) ==
    [i \in DOMAIN rows |-> [c \in DOMAIN rows[i] \cup {col} |->
        IF c = col THEN values[i] ELSE rows[i][c]]]

WithoutColumns(rows, cols) ==
    [i \in DOMAIN rows |-> [c \in DOMAIN rows[i] \ cols |-> rows[i][c]]]

\* vw_tag_summary, with and without accepted_rate and its source columns
TagSummaryRows ==
    << [tag_name |-> "dp", accepted_submissions |-> Num(1),
        total_submissions |-> Num(3)],
       [tag_name |-> "All", accepted_submissions |-> Num(0),
        total_submissions |-> Num(0)],
       [tag_name |-> "graph", accepted_submissions |-> Num(2),
        total_submissions |-> NaN],
       [tag_name |-> "math", accepted_submissions |-> Num(1),
        total_submissions |-> Num(0)],
       [tag_name |-> "tree", accepted_submissions |-> NaN,
        total_submissions |-> Num(2)] >>

TagSummaryRates == <<fdiv(100, 3), FZero, FZero, FZero, FZero>>

View(cols, rows) == [columns |-> cols, rows |-> rows]

\* The stores a run may start from: a populated store whose views lack the
\* derived columns, a small store whose views supply them, and an empty
\* store whose tag view lacks the source columns too.
Stores ==
    LET populated ==
            [Users |-> UsersRows, Problems |-> ProblemsRows,
             Platforms |-> PlatformsRows, Tags |-> TagsRows,
             Problem_Tag |-> ProblemTagRows,
             Submissions |-> SubmissionsRows,
             audit_log |-> <<>>, user_tag_stats |-> <<1>>,
             vw_leaderboard |->
                View({"username", "total_solved", "accepted_submissions",
                      "total_submissions"}, LeaderboardRows),
             vw_tag_summary |->
                View({"tag_name", "accepted_submissions", "total_submissions"},
                     TagSummaryRows)]
        complete ==
            [populated EXCEPT
             !.Users = <<[user_id |-> 2, username |-> T_b]>>,
             !.Problems = <<[problem_id |-> 5, title |-> T_b,
                             difficulty |-> "Easy", platform_id |-> 1,
                             problem_url |-> "u5"]>>,
             !.Platforms = <<[platform_id |-> 1, platform_name |-> "LeetCode"]>>,
             !.Tags = <<[tag_id |-> 1, tag_name |-> "dp"]>>,
             !.Problem_Tag = {<<5, 1>>},
             !.Submissions = <<>>,
             !.user_tag_stats = <<0>>,
             !.vw_leaderboard =
                View({"username", "total_solved", "accepted_submissions",
                      "total_submissions", "accuracy"},
                     WithColumn(LeaderboardRows, "accuracy", LeaderboardAccuracy)),
             !.vw_tag_summary =
                View({"tag_name", "accepted_submissions", "total_submissions",
                      "accepted_rate"},
                     WithColumn(TagSummaryRows, "accepted_rate", TagSummaryRates))]
        empty ==
            [Users |-> <<>>, Problems |-> <<>>, Platforms |-> <<>>,
             Tags |-> <<>>, Problem_Tag |-> {}, Submissions |-> <<>>,
             audit_log |-> <<>>, user_tag_stats |-> <<0>>,
             vw_leaderboard |-> View({"username", "total_solved"}, <<>>),
             vw_tag_summary |->
                View({"tag_name"},
                     WithoutColumns(TagSummaryRows,
                        {"accepted_submissions", "total_submissions"}))]
    IN  {populated, complete, empty}

(***************************************************************************)
(* Sequences as tables                                                     *)
(***************************************************************************)
Range(s) == {s[i] : i \in DOMAIN s}
Column(rows, col) == [i \in DOMAIN rows |-> rows[i][col]]
Head_n(rows, n) == SubSeq(rows, 1, IF Len(rows) < n THEN Len(rows) ELSE n)

\* The rows in descending order, rows that compare equal keeping their order
\* (a stable sort, which is what pandas gives for several keys and what
\* numpy's default sort does on tables this small).  gt[i, j]: row i sorts
\* before row j.
RECURSIVE SortIdx(_, _)
SortIdx(idx, gt) ==
    IF idx = <<>> THEN <<>>
    ELSE LET p == CHOOSE p \in DOMAIN idx :
                    /\ \A q \in DOMAIN idx : ~gt[idx[q], idx[p]]
                    /\ \A q \in 1..(p - 1) : gt[idx[p], idx[q]]
             rest == [q \in 1..(Len(idx) - 1) |->
                        IF q < p THEN idx[q] ELSE idx[q + 1]]
         IN  <<idx[p]>> \o SortIdx(rest, gt)

SortDesc(rows, gt) ==
    LET perm == SortIdx([i \in DOMAIN rows |-> i], gt)
    IN  [i \in DOMAIN rows |-> rows[perm[i]]]

(***************************************************************************)
(* Query gateway: get_engine, query_sql and run_write, and the statements  *)
(* the pages send through them.                                            *)
(***************************************************************************)
\* @st.cache_resource get_engine(): the engine exists after the first call
get_engine(e) == TRUE

\* the SQL of each read, over the store st
Q_platform_names(st) == Column(st.Platforms, "platform_name")
Q_tag_names(st) == Column(st.Tags, "tag_name")
Q_count(rows) == Len(rows)

\* SELECT SUM(verdict='Accepted'): NULL over no rows
Q_accepted(st) ==
    IF st.Submissions = <<>> THEN NaN
    ELSE Num(Cardinality({i \in DOMAIN st.Submissions :
                            st.Submissions[i].verdict = "Accepted"}))

\* Submissions JOIN Users JOIN Problems ORDER BY submission_date DESC LIMIT n
Q_recent(st, cols, n) ==
    LET joined == SelectSeq(st.Submissions, LAMBDA s :
                    /\ \E u \in Range(st.Users) : u.user_id = s.user_id
                    /\ \E q \in Range(st.Problems) : q.problem_id = s.problem_id)
        row(s) ==
            LET u == CHOOSE u \in Range(st.Users) : u.user_id = s.user_id
                q == CHOOSE q \in Range(st.Problems) : q.problem_id = s.problem_id
                all == [submission_id |-> s.submission_id, username |-> u.username,
                        title |-> q.title, verdict |-> s.verdict,
                        submission_date |-> s.submission_date,
                        language |-> s.language, attempt_no |-> s.attempt_no]
            IN  [c \in cols |-> all[c]]
        gt == [i, j \in DOMAIN joined |->
                joined[i].submission_date > joined[j].submission_date]
        sorted == SortDesc(joined, gt)
    IN  Head_n([i \in DOMAIN sorted |-> row(sorted[i])], n)

RecentColumnsDashboard ==
    {"submission_id", "username", "title", "verdict", "submission_date",
     "language", "attempt_no"}
RecentColumnsSubmissions ==
    {"submission_id", "username", "title", "verdict", "submission_date"}

\* the store's clock: the timestamp the next inserted row gets
Now(st) == Len(st.Submissions) + 1
YearWeek(date) == date \div DaysPerWeek

\* SELECT YEARWEEK(..) AS yw, COUNT(*) .. WHERE submission_date >= CURDATE()
\* - INTERVAL 8 WEEK GROUP BY yw ORDER BY yw DESC
Q_trend(st) ==
    LET recent == SelectSeq(st.Submissions, LAMBDA s :
                    s.submission_date >= Now(st) - TrendWeeks * DaysPerWeek)
        weeks == {YearWeek(recent[i].submission_date) : i \in DOMAIN recent}
        groups == [w \in weeks |->
                    Cardinality({i \in DOMAIN recent :
                                    YearWeek(recent[i].submission_date) = w})]
        RECURSIVE Desc(_)
        Desc(ws) ==
            IF ws = {} THEN <<>>
            ELSE LET w == CHOOSE w \in ws : \A v \in ws : v <= w
                 IN  <<[yw |-> w, submissions |-> groups[w]]>> \o Desc(ws \ {w})
    IN  Desc(weeks)

\* Problems JOIN Platforms
Q_problems(st) ==
    LET joined == SelectSeq(st.Problems, LAMBDA q :
                    \E pl \in Range(st.Platforms) : pl.platform_id = q.platform_id)
        row(q) ==
            LET pl == CHOOSE pl \in Range(st.Platforms) :
                        pl.platform_id = q.platform_id
            IN  [problem_id |-> q.problem_id, title |-> q.title,
                 difficulty |-> q.difficulty,
                 platform_name |-> pl.platform_name,
                 problem_url |-> q.problem_url]
    IN  [i \in DOMAIN joined |-> row(joined[i])]

\* Problems JOIN Problem_Tag JOIN Tags WHERE t.tag_name = %s
Q_tag_problem_ids(st, tag) ==
    {q.problem_id : q \in {q \in Range(st.Problems) :
        \E t \in Range(st.Tags) :
            t.tag_name = tag /\ <<q.problem_id, t.tag_id>> \in st.Problem_Tag}}

\* Tags JOIN Problem_Tag WHERE pt.problem_id = %s
Q_problem_tags(st, sel) ==
    Column(SelectSeq(st.Tags, LAMBDA t : <<sel, t.tag_id>> \in st.Problem_Tag),
           "tag_name")

\* SELECT * FROM audit_log ORDER BY changed_at DESC LIMIT n
Q_audit(st, n) ==
    Head_n([i \in DOMAIN st.audit_log |->
                st.audit_log[Len(st.audit_log) + 1 - i]], n)

\* user_tag_stats is kept as the number of accepted submissions it counts
Solved(st) ==
    Cardinality({i \in DOMAIN st.Submissions :
                    st.Submissions[i].verdict = "Accepted"})

\* What the store does with a statement inside the open transaction.
\* outcome "ok": every part of the statement runs; "fail_first": it raises at
\* once (a constraint, a lost connection); "fail_mid": it raises after its
\* first part ran (the row is in, the trigger fails; the procedure has
\* emptied user_tag_stats and not refilled it).  error is the message of the
\* exception the driver raises.
Execute(st, stmt, params, outcome) ==
    LET row == [submission_id |-> Now(st), user_id |-> params.uid,
                problem_id |-> params.pid, verdict |-> params.verdict,
                language |-> params.lang, notes |-> params.notes,
                submission_date |-> Now(st), attempt_no |-> 1]
        inserted == [st EXCEPT !.Submissions = Append(@, row)]
        audited == [inserted EXCEPT !.audit_log =
                        Append(@, [table_name |-> "Submissions",
                                   row_id |-> row.submission_id])]
        emptied == [st EXCEPT !.user_tag_stats = <<>>]
        refilled == [st EXCEPT !.user_tag_stats = <<Solved(st)>>]
    IN  CASE outcome = "fail_first" ->
                [work |-> st, raised |-> TRUE, error |-> outcome]
          [] outcome = "fail_mid" ->
                [work |-> IF stmt = "INSERT" THEN inserted ELSE emptied,
                 raised |-> TRUE, error |-> outcome]
          [] OTHER ->
                [work |-> IF stmt = "INSERT" THEN audited ELSE refilled,
                 raised |-> FALSE, error |-> ""]

WriteOutcomes == {"ok", "fail_first", "fail_mid"}

\* the parameters of a statement that takes none
NoParams == [uid |-> 0, pid |-> 0, verdict |-> "", lang |-> "", notes |-> ""]

\* run_write with the transaction committed whatever happened in it
run_write_commits_on_error(st, stmt, params, outcome) ==
    LET tx == Execute(st, stmt, params, outcome)
    IN  [store |-> tx.work, raised |-> tx.raised, error |-> tx.error]

\* run_write with a connection that is closed without a commit
run_write_no_commit(st, stmt, params, outcome) ==
    LET tx == Execute(st, stmt, params, outcome)
    IN  [store |-> st, raised |-> tx.raised, error |-> tx.error]

\* with engine.begin() as conn: conn.execute(...): commit when the block
\* ends, roll back and re-raise when it raises
run_write(st, stmt, params, outcome) ==
    LET tx == Execute(st, stmt, params, outcome)
    IN  IF tx.raised THEN [store |-> st, raised |-> TRUE, error |-> tx.error]
        ELSE [store |-> tx.work, raised |-> FALSE, error |-> ""]

\* loc with the matching rows in reverse order, so that .iloc[0] is the last
loc_last_first(rows, key, value, out) ==
    LET cells == Column(SelectSeq(rows, LAMBDA r : value # NULL /\ r[key] = value),
                        out)
    IN  [i \in DOMAIN cells |-> cells[Len(cells) + 1 - i]]

\* users.loc[users["username"] == user, "user_id"]: the cells of column out
\* in the rows whose column key equals value; None equals no cell
loc(rows, key, value, out) ==
    Column(SelectSeq(rows, LAMBDA r : value # NULL /\ r[key] = value), out)

\* st.selectbox(label, options): one of the options, None when there is none
SelectboxValues(options) == IF options = <<>> THEN {NULL} ELSE Range(options)

Languages == {"Python"}
Notes == {""}

\* the rows the form has added: the trigger logs one audit row for each
Added(st) == Len(st.audit_log)

\* the tables a statement of the program can change
Mutable(st) ==
    [Submissions |-> st.Submissions, audit_log |-> st.audit_log,
     user_tag_stats |-> st.user_tag_stats]

\* a transaction of this session: the tables before it and after it
NoTx == <<>>
Tx(before, after) == [before |-> Mutable(before), after |-> Mutable(after)]

(***************************************************************************)
(* Other sessions.  Every browser session runs the same script against the *)
(* same store, so what another session commits is one of the two writes of *)
(* the script: the insert of the Submissions form, for any choice of its   *)
(* widgets that resolves, or the CALL of the Admin page.                   *)
(***************************************************************************)
FormChoices(st) ==
    {c \in [user : SelectboxValues(Column(st.Users, "username")),
            problem : SelectboxValues(Column(st.Problems, "title")),
            v : DOMAIN Verdicts, lang : Languages, notes : Notes] :
        /\ loc(st.Users, "username", c.user, "user_id") # <<>>
        /\ loc(st.Problems, "title", c.problem, "problem_id") # <<>>}

SessionWrites(st) ==
    {run_write(st, "INSERT",
               [uid |-> loc(st.Users, "username", c.user, "user_id")[1],
                pid |-> loc(st.Problems, "title", c.problem, "problem_id")[1],
                verdict |-> Verdicts[c.v], lang |-> c.lang, notes |-> c.notes],
               "ok").store :
        c \in {c \in FormChoices(st) : Added(st) < MaxSubs}}
    \cup {run_write(st, "CALL", NoParams, "ok").store}

\* the stores after at most n writes of other sessions
RECURSIVE Gap(_, _)
Gap(st, n) ==
    IF n = 0 THEN {st}
    ELSE LET before == Gap(st, n - 1)
         IN  before \cup UNION {SessionWrites(earlier) : earlier \in before}

\* the stores a round trip may find when the round trip before it left st
Between(st) == Gap(st, MaxOther)

(***************************************************************************)
(* A render cycle.  fail names the read the store fails in this cycle, if  *)
(* any: query_sql raises there.  ui records the page selected, the widget  *)
(* values the routine read, the routine that began to render (view), the   *)
(* exception that ended the cycle (exc), the statements sent to the store  *)
(* in order (ops), the read among them that failed (failed), the           *)
(* st.success/st.error/st.info messages (msgs), the outcome of the write   *)
(* (write), the changeable tables before and after that write (tx), the    *)
(* widgets rendered (shown) and whether the footer was reached (footer).   *)
(***************************************************************************)
Cycle(pg, inputs, view, exc, ops, fail, msgs, write, tx, shown) ==
    [page |-> pg, inputs |-> inputs, view |-> view, exc |-> exc, ops |-> ops,
     failed |-> IF \E i \in DOMAIN ops : ops[i] = fail THEN fail ELSE "none",
     msgs |-> msgs, write |-> write, tx |-> tx, shown |-> shown,
     footer |-> exc = "none"]

NoCycle ==
    Cycle("none", <<>>, "none", "none", <<>>, "none", <<>>, "none", NoTx, <<>>)

Msg(kind, text, detail) == [kind |-> kind, text |-> text, detail |-> detail]

\* the statements sent up to and including the one that fails
Issued(planned, fail) ==
    IF \E i \in DOMAIN planned : planned[i] = fail
    THEN SubSeq(planned, 1, CHOOSE i \in DOMAIN planned : planned[i] = fail)
    ELSE planned

\* the stores the read finds: a read that is sent comes after whatever other
\* sessions committed since the round trip before it
Finds(read, planned, fail, st) ==
    IF read \in Range(Issued(planned, fail)) THEN Between(st) ELSE {st}

Widget(cond, name, content) == IF cond THEN name :> content ELSE <<>>

\* the script is not running: the page of the last cycle has been discarded
\* and the next interaction starts a cycle from the top
Idle == ui.page = "none"

SidebarReads == <<"Platforms", "Tags">>

\* ["All"] + platforms, ["All"] + tags
PlatformOptions(st) == <<"All">> \o Q_platform_names(st)
TagOptions(st) == <<"All">> \o Q_tag_names(st)

\* Lines 64-70 with a failing read: nothing catches it, the script stops
\* before the page is dispatched.
SidebarRaises ==
    /\ Idle
    /\ \E pg \in Pages, fail \in Range(SidebarReads) :
        /\ engine' = get_engine(engine)
        /\ store' = store
        /\ ui' = Cycle(pg, <<>>, "none", "ReadFailure",
                       Issued(SidebarReads, fail), fail, <<>>, "none", NoTx,
                       <<>>)

(***************************************************************************)
(* Dashboard                                                               *)
(***************************************************************************)
DashboardReads ==
    <<"Users.count", "Problems.count", "Submissions.count",
      "Submissions.accepted", "Submissions.recent", "Submissions.trend">>

\* round((accepted_count / subs_count) * 100, 2) if subs_count else 0
global_accept_rate(accepted_count, subs_count) ==
    IF subs_count # 0
    THEN round(fmul(fdiv(Val(accepted_count), subs_count), Percent),
               RoundDigits)
    ELSE Zero

\* The counts of Users and Problems, which no statement of the script
\* changes, then four reads of Submissions, each finding the store as the
\* other sessions have left it by then.
RenderDashboard ==
    /\ Idle
    /\ \E fail \in {"none"} \cup Range(DashboardReads) :
       \E atAccepted \in Finds("Submissions.accepted", DashboardReads, fail,
                               store) :
       \E atRecent \in Finds("Submissions.recent", DashboardReads, fail,
                             atAccepted) :
       \E atTrend \in Finds("Submissions.trend", DashboardReads, fail,
                            atRecent) :
        LET subs_count == Q_count(store.Submissions)
            accepted_count == Q_accepted(atAccepted)
            metrics == [Users |-> Q_count(store.Users),
                        Problems |-> Q_count(store.Problems),
                        Submissions |-> subs_count,
                        accepted_count |-> accepted_count,
                        rate |-> global_accept_rate(accepted_count, subs_count)]
            metricsShown == fail \in {"none", "Submissions.recent",
                                      "Submissions.trend"}
            recentShown == fail \in {"none", "Submissions.trend"}
            trend_df == Q_trend(atTrend)
            \* trend_df.sort_values("week")
            chart == [i \in DOMAIN trend_df |-> trend_df[Len(trend_df) + 1 - i]]
            shown ==
                Widget(metricsShown, "metrics", metrics)
                @@ Widget(recentShown, "recent",
                          Q_recent(atRecent, RecentColumnsDashboard,
                                   RecentLimitDashboard))
                @@ Widget(fail = "none" /\ trend_df # <<>>, "chart", chart)
            msgs == IF fail = "none" /\ trend_df = <<>>
                    THEN <<Msg("info", "No recent submissions to chart.", "")>>
                    ELSE <<>>
        IN  /\ engine' = get_engine(engine)
            /\ store' = atTrend
            /\ ui' = Cycle("Dashboard", <<>>, "Dashboard",
                           IF fail = "none" THEN "none" ELSE "ReadFailure",
                           SidebarReads \o Issued(DashboardReads, fail),
                           fail, msgs, "none", NoTx, shown)

(***************************************************************************)
(* Leaderboard                                                             *)
(***************************************************************************)
\* lines 138-146: the search filter, the accuracy fallback and the sort
leaderboard_table(lb, search_text) ==
    LET filtered == IF search_text # <<>>
                    THEN filter_text(lb.rows, "username", search_text)
                    ELSE lb.rows
        withAcc == IF "accuracy" \notin lb.columns
                   THEN WithColumn(filtered, "accuracy",
                                   [i \in DOMAIN filtered |-> 0])
                   ELSE filtered
        gt == [i, j \in DOMAIN withAcc |->
                \/ withAcc[i].total_solved > withAcc[j].total_solved
                \/ /\ withAcc[i].total_solved = withAcc[j].total_solved
                   /\ withAcc[i].accuracy > withAcc[j].accuracy]
    IN  SortDesc(withAcc, gt)

\* lb_df.sort_values("total_solved", ascending=False).head(10)
top_solvers(rows) ==
    Head_n(SortDesc(rows, [i, j \in DOMAIN rows |->
                            rows[i].total_solved > rows[j].total_solved]),
           TopSolvers)

RenderLeaderboard ==
    /\ Idle
    /\ \E search_text \in SearchTexts, fail \in {"none", "vw_leaderboard"} :
        LET raises == search_text # <<>> /\ ~re_compiles(search_text)
            exc == IF fail # "none" THEN "ReadFailure"
                   ELSE IF raises THEN "re.error" ELSE "none"
            lb_df == leaderboard_table(store.vw_leaderboard, search_text)
            top == top_solvers(lb_df)
            shown == Widget(exc = "none", "table", lb_df)
                     @@ Widget(exc = "none" /\ top # <<>>, "chart", top)
        IN  /\ engine' = get_engine(engine)
            /\ store' = store
            /\ ui' = Cycle("Leaderboard", [search_text |-> search_text],
                           "Leaderboard", exc,
                           SidebarReads \o <<"vw_leaderboard">>, fail, <<>>,
                           "none", NoTx, shown)

(***************************************************************************)
(* Problems                                                                *)
(***************************************************************************)
\* lines 169-186: the platform filter, the tag filter and the search filter
\* on the rows of the problems query
problems_table(st, selected_platform, selected_tag, search_text) ==
    LET p_df == Q_problems(st)
        byPlatform == IF selected_platform # "All"
                      THEN filter_eq(p_df, "platform_name", selected_platform)
                      ELSE p_df
        byTag == IF selected_tag # "All"
                 THEN filter_isin(byPlatform, "problem_id",
                                  Q_tag_problem_ids(st, selected_tag))
                 ELSE byPlatform
    IN  IF search_text # <<>> THEN filter_text(byTag, "title", search_text)
        ELSE byTag

\* st.number_input(.., value=0, min_value=0): 0 for none, or a problem_id
SelValues == {0, 1}

\* st.selectbox returns options[i] for the option i the user picked; the
\* script sees the value, not the position
RenderProblems ==
    /\ Idle
    /\ \E platform_index \in DOMAIN PlatformOptions(store),
       tag_index \in DOMAIN TagOptions(store),
       search_text \in SearchTexts,
       sel \in SelValues,
       fail \in {"none", "Problems", "tag_ids", "problem_tags"} :
        LET selected_platform == PlatformOptions(store)[platform_index]
            selected_tag == TagOptions(store)[tag_index]
            tagRead == IF selected_tag # "All" THEN <<"tag_ids">> ELSE <<>>
            raises == search_text # <<>> /\ ~re_compiles(search_text)
            filterReads == <<"Problems">> \o tagRead
            selRead == IF sel > 0 THEN <<"problem_tags">> ELSE <<>>
            exc == IF fail \in Range(filterReads) THEN "ReadFailure"
                   ELSE IF raises THEN "re.error"
                   ELSE IF fail \in Range(selRead) THEN "ReadFailure"
                   ELSE "none"
            ops == IF fail \in Range(filterReads) THEN Issued(filterReads, fail)
                   ELSE IF raises THEN filterReads
                   ELSE filterReads \o selRead
            tableShown == fail \notin Range(filterReads) /\ ~raises
            shown ==
                Widget(tableShown, "table",
                       problems_table(store, selected_platform, selected_tag,
                                      search_text))
                @@ Widget(exc = "none" /\ sel > 0, "tags",
                          Q_problem_tags(store, sel))
        IN  /\ fail \in {"none"} \cup Range(filterReads) \cup Range(selRead)
            /\ engine' = get_engine(engine)
            /\ store' = store
            /\ ui' = Cycle("Problems",
                           [platform_index |-> platform_index,
                            selected_platform |-> selected_platform,
                            tag_index |-> tag_index,
                            selected_tag |-> selected_tag,
                            search_text |-> search_text, sel |-> sel],
                           "Problems", exc, SidebarReads \o ops, fail, <<>>,
                           "none", NoTx, shown)

(***************************************************************************)
(* Submissions                                                             *)
(***************************************************************************)
\* submit_handler that tries a failed insert a second time
submit_handler_retries(st, submitted, params, outcome) ==
    IF ~submitted
    THEN [store |-> st, ops |-> <<>>, msgs |-> <<>>, write |-> "none",
          propagated |-> FALSE]
    ELSE LET res == run_write(st, "INSERT", params, outcome)
         IN  [store |-> res.store,
              ops |-> IF res.raised THEN <<"INSERT", "INSERT">> ELSE <<"INSERT">>,
              msgs |-> IF res.raised
                       THEN <<Msg("error", "Failed to insert submission: ",
                                  res.error)>>
                       ELSE <<Msg("success", "Submission recorded", "")>>,
              write |-> IF res.raised THEN "failed" ELSE "ok",
              propagated |-> FALSE]

\* submit_handler without the try/except around run_write
submit_handler_no_except(st, submitted, params, outcome) ==
    IF ~submitted
    THEN [store |-> st, ops |-> <<>>, msgs |-> <<>>, write |-> "none",
          propagated |-> FALSE]
    ELSE LET res == run_write(st, "INSERT", params, outcome)
         IN  [store |-> res.store, ops |-> <<"INSERT">>,
              msgs |-> IF res.raised THEN <<>>
                       ELSE <<Msg("success", "Submission recorded", "")>>,
              write |-> IF res.raised THEN "failed" ELSE "ok",
              propagated |-> res.raised]

\* lines 222-234: if submitted, one run_write in a try/except that reports
\* the outcome; propagated says whether an exception leaves the handler
submit_handler(st, submitted, params, outcome) ==
    IF ~submitted
    THEN [store |-> st, ops |-> <<>>, msgs |-> <<>>, write |-> "none",
          propagated |-> FALSE]
    ELSE LET res == run_write(st, "INSERT", params, outcome)
         IN  [store |-> res.store, ops |-> <<"INSERT">>,
              msgs |-> IF res.raised
                       THEN <<Msg("error", "Failed to insert submission: ",
                                  res.error)>>
                       ELSE <<Msg("success", "Submission recorded", "")>>,
              write |-> IF res.raised THEN "failed" ELSE "ok",
              propagated |-> FALSE]

\* The lookups read Users and Problems, which no statement of the script
\* changes; the insert commits on the store of the lookups; the Recent
\* Submissions read finds what other sessions committed after the insert.
RenderSubmissions ==
    /\ Idle
    /\ \E user \in SelectboxValues(Column(store.Users, "username")),
       problem \in SelectboxValues(Column(store.Problems, "title")),
       v \in DOMAIN Verdicts, lang \in Languages, notes \in Notes,
       submitted \in BOOLEAN, outcome \in WriteOutcomes,
       fail \in {"none", "Users", "Problems.titles", "Submissions.recent"} :
        LET verdict == Verdicts[v]
            user_ids == loc(store.Users, "username", user, "user_id")
            problem_ids == loc(store.Problems, "title", problem, "problem_id")
            \* .iloc[0] of an empty selection raises IndexError
            formExc == IF fail = "Users" THEN "ReadFailure"
                       ELSE IF user_ids = <<>> THEN "IndexError"
                       ELSE IF fail = "Problems.titles" THEN "ReadFailure"
                       ELSE IF problem_ids = <<>> THEN "IndexError"
                       ELSE "none"
            formOps == IF fail = "Users" \/ user_ids = <<>> THEN <<"Users">>
                       ELSE <<"Users", "Problems.titles">>
            params == [uid |-> user_ids[1], pid |-> problem_ids[1],
                       verdict |-> verdict, lang |-> lang, notes |-> notes]
            \* the form ends at line 220: form_submit_button returns only in
            \* a cycle that gets there
            h == IF formExc = "none"
                 THEN submit_handler(store, submitted, params, outcome)
                 ELSE submit_handler(store, FALSE, NoParams, outcome)
            exc == IF formExc # "none" THEN formExc
                   ELSE IF h.propagated THEN "WriteFailure"
                   ELSE IF fail = "Submissions.recent" THEN "ReadFailure"
                   ELSE "none"
            ops == IF formExc # "none" THEN formOps
                   ELSE IF h.propagated THEN formOps \o h.ops
                   ELSE formOps \o h.ops \o <<"Submissions.recent">>
            recentSent == formExc = "none" /\ ~h.propagated
        IN  \E atRecent \in (IF recentSent /\ h.ops # <<>>
                             THEN Between(h.store) ELSE {h.store}) :
            /\ h.write = "ok" => Added(store) < MaxSubs
            /\ h.write = "none" => outcome = "ok"
            /\ engine' = get_engine(engine)
            /\ store' = atRecent
            /\ ui' = Cycle("Submissions",
                           IF formExc = "none"
                           THEN [submitted |-> submitted] ELSE <<>>,
                           "Submissions", exc, SidebarReads \o ops, fail,
                           h.msgs, h.write,
                           IF h.write = "none" THEN NoTx ELSE Tx(store, h.store),
                           Widget(formExc = "none", "form",
                                  [user |-> user, problem |-> problem,
                                   verdict |-> verdict, language |-> lang,
                                   notes |-> notes])
                           @@ Widget(exc = "none", "recent",
                                     Q_recent(atRecent, RecentColumnsSubmissions,
                                              RecentLimitSubmissions)))

(***************************************************************************)
(* Tag Analysis                                                            *)
(***************************************************************************)
\* accepted_submissions / total_submissions on one row of two float columns:
\* NaN for a missing value and for 0/0, inf for a positive number over zero
true_div(accepted, total) ==
    IF IsNaN(accepted) \/ IsNaN(total) THEN NaN
    ELSE IF Val(total) = 0
         THEN (IF Val(accepted) = 0 THEN NaN ELSE Num(FInf))
         ELSE Num(fdiv(Val(accepted), Val(total)))

\* Series.fillna(0) on one cell
fillna(v, value) == IF IsNaN(v) THEN value ELSE Val(v)

\* (accepted_submissions / total_submissions).fillna(0) * 100 on one row
accepted_rate(accepted, total) ==
    fmul(fillna(true_div(accepted, total), FZero), Percent)

\* lines 255-265: the tag filter and the accepted_rate fallback
tag_table(view, selected_tag) ==
    LET tag_df == IF selected_tag # "All"
                  THEN filter_eq(view.rows, "tag_name", selected_tag)
                  ELSE view.rows
    IN  IF "accepted_rate" \in view.columns THEN tag_df
        ELSE IF {"accepted_submissions", "total_submissions"} \subseteq view.columns
        THEN WithColumn(tag_df, "accepted_rate",
                [i \in DOMAIN tag_df |->
                    accepted_rate(tag_df[i].accepted_submissions,
                                  tag_df[i].total_submissions)])
        ELSE WithColumn(tag_df, "accepted_rate", [i \in DOMAIN tag_df |-> Zero])

RenderTagAnalysis ==
    /\ Idle
    /\ \E tag_index \in DOMAIN TagOptions(store),
       fail \in {"none", "vw_tag_summary"} :
        LET selected_tag == TagOptions(store)[tag_index]
            tag_df == tag_table(store.vw_tag_summary, selected_tag)
            \* tag_df.sort_values("accepted_rate", ascending=False)
            chart == SortDesc(tag_df, [i, j \in DOMAIN tag_df |->
                        fgt(to_float(tag_df[i].accepted_rate),
                            to_float(tag_df[j].accepted_rate))])
            shown == Widget(fail = "none", "table", tag_df)
                     @@ Widget(fail = "none" /\ tag_df # <<>>, "chart", chart)
            msgs == IF fail = "none" /\ tag_df = <<>>
                    THEN <<Msg("info", "No tag data available.", "")>>
                    ELSE <<>>
        IN  /\ engine' = get_engine(engine)
            /\ store' = store
            /\ ui' = Cycle("Tag Analysis",
                           [tag_index |-> tag_index,
                            selected_tag |-> selected_tag],
                           "Tag Analysis",
                           IF fail = "none" THEN "none" ELSE "ReadFailure",
                           SidebarReads \o <<"vw_tag_summary">>, fail, msgs,
                           "none", NoTx, shown)

(***************************************************************************)
(* Admin                                                                   *)
(***************************************************************************)
\* lines 287-294: if the button was pressed, the CALL in a transaction of
\* its own, in a try/except that reports the outcome
call_handler(st, button, outcome) ==
    IF ~button
    THEN [store |-> st, ops |-> <<>>, msgs |-> <<>>, write |-> "none",
          propagated |-> FALSE]
    ELSE LET res == run_write(st, "CALL", NoParams, outcome)
         IN  [store |-> res.store, ops |-> <<"CALL">>,
              msgs |-> IF res.raised
                       THEN <<Msg("error", "Failed to run stored procedure: ",
                                  res.error)>>
                       ELSE <<Msg("success", "Stored procedure executed", "")>>,
              write |-> IF res.raised THEN "failed" ELSE "ok",
              propagated |-> FALSE]

\* The CALL commits on the store the cycle found; the audit read finds what
\* other sessions committed after the CALL.
RenderAdmin ==
    /\ Idle
    /\ \E button \in BOOLEAN, outcome \in WriteOutcomes,
          fail \in {"none", "audit_log"} :
        LET h == call_handler(store, button, outcome)
            \* the audit read sits in a try/except of its own
            auditMsg == IF fail = "audit_log"
                        THEN <<Msg("error", "Could not fetch audit log: ",
                                   "audit_log")>>
                        ELSE <<>>
        IN  \E atAudit \in (IF ~h.propagated /\ h.ops # <<>>
                            THEN Between(h.store) ELSE {h.store}) :
            /\ h.write = "none" => outcome = "ok"
            /\ engine' = get_engine(engine)
            /\ store' = atAudit
            /\ ui' = Cycle("Admin", [button |-> button], "Admin",
                           IF h.propagated THEN "WriteFailure" ELSE "none",
                           SidebarReads \o h.ops
                           \o (IF h.propagated THEN <<>> ELSE <<"audit_log">>),
                           fail,
                           h.msgs \o (IF h.propagated THEN <<>> ELSE auditMsg),
                           h.write,
                           IF h.write = "none" THEN NoTx ELSE Tx(store, h.store),
                           Widget(~h.propagated /\ fail = "none", "audit",
                                  Q_audit(atAudit, AuditLimit)))

\* Another session commits a write between two cycles of this one.
OtherSession ==
    /\ Idle
    /\ engine' = get_engine(engine)
    /\ store' \in SessionWrites(store) \ {store}
    /\ ui' = ui

Init ==
    /\ engine = FALSE
    /\ store \in Stores
    /\ ui = NoCycle

\* Any interaction reruns the script from the top: what the last cycle
\* rendered is dropped, the store and the cached engine stay.
Rerun ==
    /\ ~Idle
    /\ ui' = NoCycle
    /\ UNCHANGED <<engine, store>>

Next ==
    \/ Rerun
    \/ OtherSession
    \/ SidebarRaises
    \/ RenderDashboard
    \/ RenderLeaderboard
    \/ RenderProblems
    \/ RenderSubmissions
    \/ RenderTagAnalysis
    \/ RenderAdmin

Spec == Init /\ [][Next]_vars

(***************************************************************************)
(* Properties                                                              *)
(***************************************************************************)
Inserts(ops) == Cardinality({i \in DOMAIN ops : ops[i] = "INSERT"})
Accepted(rows) ==
    Cardinality({i \in DOMAIN rows : rows[i].verdict = "Accepted"})
Min(a, b) == IF a < b THEN a ELSE b
Shown(w) == w \in DOMAIN ui.shown
DbErrors == WriteOutcomes \ {"ok"}
WriteMsgs(msgs) ==
    SelectSeq(msgs, LAMBDA m : m.kind = "success" \/ m.detail \in DbErrors)

\* C1: a write that fails, the insert of the Submissions form or the CALL of
\* the Admin page, is reported as an error message that carries the message
\* of the database, the exception goes no further, and the tables hold after
\* the write what they held before it.
C1_FailedWriteRollsBack ==
    ui.write = "failed" =>
        /\ ui.tx.after = ui.tx.before
        /\ ui.exc # "WriteFailure"
        /\ Len(WriteMsgs(ui.msgs)) = 1
        /\ WriteMsgs(ui.msgs)[1].kind = "error"
        /\ WriteMsgs(ui.msgs)[1].detail \in DbErrors

\* an insert failed after the row went in and before the trigger finished
C1_Witness ==
    /\ ui.page = "Submissions"
    /\ ui.write = "failed"
    /\ \E i \in DOMAIN ui.msgs : ui.msgs[i].detail = "fail_mid"

\* C2: no read is cached.  A successful insert adds exactly one row to
\* Submissions, the accepted count grows by one exactly when the verdict is
\* Accepted, the row stays, and the Recent Submissions read of the same cycle
\* holds it; every Dashboard counts at least the rows committed before its
\* cycle began and at most those committed when it ended, and lists them.
C2_ReadsAreFresh ==
    [][/\ (ui'.page = "Submissions" /\ ui'.write = "ok") =>
            LET old == ui'.tx.before.Submissions
                new == ui'.tx.after.Submissions
                row == new[Len(new)]
            IN  /\ old = store.Submissions
                /\ Len(new) = Len(old) + 1
                /\ SubSeq(new, 1, Len(old)) = old
                /\ Accepted(new) = Accepted(old)
                        + (IF ui'.shown.form.verdict = "Accepted" THEN 1 ELSE 0)
                /\ Len(store'.Submissions) >= Len(new)
                /\ SubSeq(store'.Submissions, 1, Len(new)) = new
                /\ "recent" \in DOMAIN ui'.shown =>
                    /\ Len(ui'.shown.recent)
                            = Min(Len(store'.Submissions), RecentLimitSubmissions)
                    /\ \E i \in DOMAIN ui'.shown.recent :
                        /\ ui'.shown.recent[i].submission_id = row.submission_id
                        /\ ui'.shown.recent[i].verdict = ui'.shown.form.verdict
       /\ (ui'.page = "Dashboard" /\ "metrics" \in DOMAIN ui'.shown) =>
            LET m == ui'.shown.metrics
            IN  /\ m.Submissions >= Len(store.Submissions)
                /\ m.Submissions <= Len(store'.Submissions)
                /\ IF IsNaN(m.accepted_count) THEN store.Submissions = <<>>
                   ELSE /\ Val(m.accepted_count) >= Accepted(store.Submissions)
                        /\ Val(m.accepted_count) <= Accepted(store'.Submissions)
       /\ (ui'.page = "Dashboard" /\ "recent" \in DOMAIN ui'.shown) =>
            /\ Len(ui'.shown.recent)
                    >= Min(Len(store.Submissions), RecentLimitDashboard)
            /\ Len(ui'.shown.recent)
                    <= Min(Len(store'.Submissions), RecentLimitDashboard)
            /\ Len(store.Submissions) <= RecentLimitDashboard =>
                    \A i \in DOMAIN store.Submissions :
                        \E j \in DOMAIN ui'.shown.recent :
                            ui'.shown.recent[j].submission_id
                                = store.Submissions[i].submission_id
      ]_vars

\* a Dashboard rendered after an insert shows one submission more
C2_Witness ==
    /\ ui.page = "Dashboard"
    /\ Shown("metrics")
    /\ Added(store) >= 1
    /\ store.Users = UsersRows
    /\ ui.shown.metrics.Submissions = Len(SubmissionsRows) + 1

\* C3: a read that fails shows an error message in its routine; the cycle
\* goes on to its end and the selected view is rendered.
C3_ReadFailureInline ==
    ui.failed # "none" =>
        /\ ui.exc = "none"
        /\ ui.footer
        /\ ui.view = ui.page
        /\ \E i \in DOMAIN ui.msgs :
            ui.msgs[i].kind = "error" /\ ui.msgs[i].detail = ui.failed

\* C4: a cycle in which the submit button returned True sends exactly one
\* INSERT, failed or not, and its transaction adds at most one row; any other
\* cycle sends none and its transaction, if it has one, leaves Submissions
\* as it was.
C4_OneInsertPerSubmit ==
    LET submitted == /\ ui.page = "Submissions"
                     /\ "submitted" \in DOMAIN ui.inputs
                     /\ ui.inputs.submitted
    IN  /\ submitted =>
            /\ Inserts(ui.ops) = 1
            /\ ui.write \in {"ok", "failed"}
            /\ Len(ui.tx.after.Submissions)
                    <= Len(ui.tx.before.Submissions) + 1
        /\ ~submitted =>
            /\ Inserts(ui.ops) = 0
            /\ ui.tx # NoTx =>
                    ui.tx.after.Submissions = ui.tx.before.Submissions

\* a submit whose insert failed: one INSERT was sent, and no second one
C4_Witness ==
    /\ ui.page = "Submissions"
    /\ ui.inputs = [submitted |-> TRUE]
    /\ ui.write = "failed"
    /\ Inserts(ui.ops) = 1

\* C5: the row a submit inserts carries the user_id of the first Users row
\* with the selected username, the problem_id of the first Problems row with
\* the selected title, and the selected verdict, which is one of the four.
C5_InsertedRowResolved ==
    (ui.page = "Submissions" /\ ui.write = "ok") =>
        LET row == ui.tx.after.Submissions[Len(ui.tx.after.Submissions)]
            form == ui.shown.form
            u == CHOOSE i \in DOMAIN store.Users :
                    /\ store.Users[i].username = form.user
                    /\ \A j \in 1..(i - 1) : store.Users[j].username # form.user
            q == CHOOSE i \in DOMAIN store.Problems :
                    /\ store.Problems[i].title = form.problem
                    /\ \A j \in 1..(i - 1) : store.Problems[j].title # form.problem
        IN  /\ \E i \in DOMAIN store.Users : store.Users[i].username = form.user
            /\ \E i \in DOMAIN store.Problems :
                    store.Problems[i].title = form.problem
            /\ row.user_id = store.Users[u].user_id
            /\ row.problem_id = store.Problems[q].problem_id
            /\ row.verdict = form.verdict
            /\ row.verdict \in {"Accepted", "Wrong Answer", "TLE", "RTE"}

\* a row inserted for a username and a title that two rows each carry
C5_Witness ==
    /\ ui.page = "Submissions"
    /\ ui.write = "ok"
    /\ ui.shown.form.user = T_ab
    /\ ui.shown.form.problem = T_Ab
    /\ Cardinality({i \in DOMAIN store.Users :
                        store.Users[i].username = T_ab}) > 1
    /\ Cardinality({i \in DOMAIN store.Problems :
                        store.Problems[i].title = T_Ab}) > 1

\* C6: in every cycle the routine of the selected page, and no other, is
\* rendered.
C6_SelectedViewRendered ==
    ui.page # "none" => ui.view = ui.page

\* the rows of a table a category filter is to keep: all of them for the
\* sentinel, which is the first option, and the rows equal to the option
\* picked for any other
HasTag(st, problem_id, tag) ==
    \E t \in Range(st.Tags) :
        t.tag_name = tag /\ <<problem_id, t.tag_id>> \in st.Problem_Tag

\* C7: with the sentinel "All" picked the table is unfiltered; with any other
\* option picked, a platform or tag named "All" included, the table holds
\* exactly the rows equal to it.
C7_CategoryFilterExact ==
    /\ (ui.page = "Problems" /\ Shown("table") /\ ui.inputs.search_text = <<>>) =>
            ui.shown.table =
                SelectSeq(Q_problems(store), LAMBDA r :
                    /\ ui.inputs.platform_index = 1
                        \/ r.platform_name = ui.inputs.selected_platform
                    /\ ui.inputs.tag_index = 1
                        \/ HasTag(store, r.problem_id, ui.inputs.selected_tag))
    /\ (ui.page = "Tag Analysis" /\ Shown("table")) =>
            Column(ui.shown.table, "tag_name") =
                Column(SelectSeq(store.vw_tag_summary.rows, LAMBDA r :
                            \/ ui.inputs.tag_index = 1
                            \/ r.tag_name = ui.inputs.selected_tag),
                       "tag_name")

\* the digits of a natural number
RECURSIVE NatBits(_)
NatBits(n) == IF n = 0 THEN <<>> ELSE <<n % 2>> \o NatBits(n \div 2)

\* the number x, a float or a fraction, is n/d exactly (n >= 0, d > 0)
Exactly(x, n, d) ==
    IF "m" \notin DOMAIN x THEN x.n * d = n * x.d
    ELSE /\ ~x.inf
         /\ LET left == Times(x.m, d)
                right == NatBits(n)
            IN  IF x.e >= 0
                THEN Len(ShiftLeft(left, x.e)) = Len(right)
                     /\ \A i \in DOMAIN right : ShiftLeft(left, x.e)[i] = right[i]
                ELSE Len(left) = Len(ShiftLeft(right, 0 - x.e))
                     /\ \A i \in DOMAIN left :
                            left[i] = ShiftLeft(right, 0 - x.e)[i]

\* cell contains pat as a literal substring, letter case ignored
ContainsLiteral(cell, pat) ==
    /\ cell # NULL
    /\ \E i \in 0..(Len(cell) - Len(pat)) :
        \A j \in 1..Len(pat) : Lower(pat[j]) = Lower(cell[i + j])

\* C8: for every search text that is not empty the text filter raises
\* nothing and keeps exactly the rows whose username (Leaderboard) or title
\* (Problems) contains the text as a literal substring, letter case ignored;
\* a null cell is never kept.
C8_TextFilterLiteral ==
    /\ (ui.view = "Leaderboard" /\ ui.inputs.search_text # <<>>
            /\ ui.failed = "none") =>
            /\ ui.exc = "none"
            /\ Shown("table")
            /\ LET kept == SelectSeq(store.vw_leaderboard.rows, LAMBDA r :
                            ContainsLiteral(r.username, ui.inputs.search_text))
               IN  /\ Len(ui.shown.table) = Len(kept)
                   /\ Range(Column(ui.shown.table, "username"))
                        = Range(Column(kept, "username"))
    /\ (ui.view = "Problems" /\ ui.inputs.search_text # <<>>
            /\ ui.failed \notin {"Problems", "tag_ids"}) =>
            /\ ui.exc # "re.error"
            /\ Shown("table")
            /\ ui.shown.table =
                SelectSeq(problems_table(store, ui.inputs.selected_platform,
                                         ui.inputs.selected_tag, <<>>),
                          LAMBDA r : ContainsLiteral(r.title, ui.inputs.search_text))

\* C9 as stated: a derived rate that the query does not supply is, on every
\* row, 0 when total is zero or missing and accepted/total*100 exactly when
\* total > 0, never infinite: accepted_rate of Tag Analysis, accuracy of the
\* Leaderboard, the global accept rate of the Dashboard.
C9_DerivedRateExact ==
    /\ (ui.page = "Tag Analysis" /\ Shown("table")
            /\ "accepted_rate" \notin store.vw_tag_summary.columns) =>
            \A i \in DOMAIN ui.shown.table :
                LET r == ui.shown.table[i]
                    total == IF "total_submissions" \in DOMAIN r
                             THEN r.total_submissions ELSE NaN
                IN  IF IsNaN(total) \/ Val(total) = 0
                    THEN Exactly(r.accepted_rate, 0, 1)
                    ELSE ~IsNaN(r.accepted_submissions) =>
                            Exactly(r.accepted_rate,
                                    Val(r.accepted_submissions) * 100, Val(total))
    /\ (ui.page = "Leaderboard" /\ Shown("table")
            /\ "accuracy" \notin store.vw_leaderboard.columns) =>
            \A i \in DOMAIN ui.shown.table :
                LET r == ui.shown.table[i]
                IN  IF "total_submissions" \in DOMAIN r /\ r.total_submissions > 0
                    THEN r.accuracy * r.total_submissions
                            = r.accepted_submissions * 100
                    ELSE r.accuracy = 0
    /\ (ui.page = "Dashboard" /\ Shown("metrics")) =>
            LET m == ui.shown.metrics
            IN  IF m.Submissions = 0 THEN Exactly(m.rate, 0, 1)
                ELSE Exactly(m.rate, Val(m.accepted_count) * 100, m.Submissions)

\* C10: a write that fails does not end its cycle.  After an insert attempt
\* the Submissions page sends the Recent Submissions read and renders its
\* result, after a CALL the Admin page sends the audit-log read, whatever the
\* outcome of the write; and each attempted write shows exactly one message,
\* success or error.
C10_WriteFailureDoesNotAbort ==
    /\ (ui.page = "Submissions" /\ ui.write # "none") =>
            /\ Len(ui.ops) >= 2
            /\ SubSeq(ui.ops, Len(ui.ops) - 1, Len(ui.ops))
                    = <<"INSERT", "Submissions.recent">>
            /\ Shown("recent") <=> ui.failed = "none"
            /\ ui.exc = "none" <=> ui.failed = "none"
    /\ (ui.page = "Admin" /\ ui.write # "none") =>
            /\ Len(ui.ops) >= 2
            /\ SubSeq(ui.ops, Len(ui.ops) - 1, Len(ui.ops))
                    = <<"CALL", "audit_log">>
            /\ Shown("audit") <=> ui.failed = "none"
            /\ ui.exc = "none"
    /\ ui.write # "none" =>
            /\ Len(WriteMsgs(ui.msgs)) = 1
            /\ WriteMsgs(ui.msgs)[1].kind
                    = (IF ui.write = "ok" THEN "success" ELSE "error")
    /\ ui.write = "none" => WriteMsgs(ui.msgs) = <<>>

\* a failed insert followed, in the same cycle, by the rendered recent table
C10_Witness ==
    /\ ui.page = "Submissions"
    /\ ui.write = "failed"
    /\ Shown("recent")
    /\ ui.footer
====
